---- MODULE Spec2Model ----
(***************************************************************************)
(* Job-graph construction of the autoseq ClinseqPipeline and its ALASCCA   *)
(* specialization (src/autoseq/pipeline/clinseq.py, alascca.py).           *)
(*                                                                         *)
(* One behaviour is one construction of an AlasccaPipeline: the build pass *)
(* of AlasccaPipeline.__init__ over a sample description, a reference-data *)
(* bundle and a library directory chosen in Init (fields of the object).   *)
(* Python dictionaries are iterated in an unspecified order, so every      *)
(* "for ... in <dict keys>" loop takes its next key nondeterministically   *)
(* from the keys left.                                                     *)
(*                                                                         *)
(* Strings are modelled by what the format templates build: a Str is a     *)
(* literal prefix, the "-"-joined tokens that were formatted into it, and  *)
(* a literal suffix.  Two Strs are equal exactly when the two Python       *)
(* strings are (no token of the model contains "-").                       *)
(*                                                                         *)
(* Reading of the source.  The snapshot holds statements that cannot be    *)
(* executed at all; each is read as the name the surrounding code defines, *)
(* and every other statement is modelled as written:                       *)
(*   clinseq.py:46-51   namedtuple() is given the four field names but no  *)
(*                      type name: UniqueCapture is the 4-field tuple;     *)
(*   clinseq.py:313,397 .prep_kit_id is the field library_kit_id;          *)
(*   clinseq.py:499     "normal" is the parameter normal_capture;          *)
(*   clinseq.py:560     the template's first slot is self.outdir;          *)
(*   clinseq.py:603     the extra "self" argument is dropped;              *)
(*   clinseq.py:359     each element of get_all_fastq_files() is the fastq *)
(*                      reference of one barcode;                          *)
(*   alascca.py:76      .cna is the field cns;                             *)
(*   alascca.py:164     the doubled comma is a single comma;               *)
(*   cli/alascca.py:11  the imported module is pipeline/alascca.py;        *)
(*   cli/alascca.py:27  the constructor is also given the library          *)
(*                      directory (libdir) it requires.                    *)
(* pypedream's add(), the tool wrappers (align_library,                    *)
(* call_somatic_variants, default job names) and find_fastqs are not part  *)
(* of the sources at hand and are modelled from the specification.         *)
(***************************************************************************)
EXTENDS Integers, Sequences, FiniteSets, TLC

VARIABLES
    pipeline,   \* the pipeline object: its fields, the job graph, the raised exception
    pc,         \* position of the build pass in AlasccaPipeline.__init__
    todo,       \* keys left to iterate in the current loop
    cur,        \* the normal capture of the running configure_panel_analysis_with_normal
    todoC       \* cancer captures left to pair with cur

vars == <<pipeline, pc, todo, cur, todoC>>

----------------------------------------------------------------------------
(* Bounds *)

\* largest number of panel barcodes in a sample description
MaxBarcodes == 3

\* largest number of barcodes of the description without data in libdir
MaxNoData == 1

----------------------------------------------------------------------------
(* Strings, paths and Python's None *)

Str(prefix, toks, suffix) == [prefix |-> prefix, toks |-> toks, suffix |-> suffix]

\* Python's None
None == Str("None", <<>>, "")

\* the 1-tuple (None,) that "x = None," assigns
NoneTuple == Str("(None,)", <<>>, "")

Truthy(v) == v # None

\* the subsequence of s of the elements in keep
RECURSIVE SelectSeqIn(_, _)
SelectSeqIn(s, keep) ==
    IF s = <<>> THEN <<>>
    ELSE IF Head(s) \in keep THEN <<Head(s)>> \o SelectSeqIn(Tail(s), keep)
         ELSE SelectSeqIn(Tail(s), keep)

RECURSIVE Flatten(_)
Flatten(ss) == IF ss = <<>> THEN <<>> ELSE Head(ss) \o Flatten(Tail(ss))

Range(s) == {s[i] : i \in 1..Len(s)}

----------------------------------------------------------------------------
(* Barcodes: a barcode is kept as the list of tokens split("-") gives *)

\* token[:2] of the kit tokens in use
First2(tok) ==
    CASE tok = "TD1" -> "TD" [] tok = "TD2" -> "TD" [] tok = "TP1" -> "TP"
      [] tok = "CS1" -> "CS" [] tok = "AL1" -> "AL"
      [] OTHER -> tok

BN1  == <<"AL", "P", "SD1", "N", "01", "TD1", "CS1">>
BN1b == <<"AL", "P", "SD1", "N", "01", "TD2", "CS1">>
BN2  == <<"AL", "P", "SD1", "N", "03", "TD1", "AL1">>
BT1  == <<"AL", "P", "SD1", "T", "02", "TD1", "CS1">>
BT2  == <<"AL", "P", "SD1", "T", "02", "TD1", "AL1">>
BC1  == <<"AL", "P", "SD1", "CFDNA", "04", "TP1", "CS1">>
\* the five-token form of src/tests/test_liqbio.py
BShort == <<"SD1", "T", "02", "TD1", "CS1">>

NormalBarcodes == <<BN1, BN1b, BN2>>
TumorBarcodes  == <<BT1, BT2, BShort>>
CfdnaBarcodes  == <<BC1>>
AllBarcodes    == Range(NormalBarcodes) \cup Range(TumorBarcodes) \cup Range(CfdnaBarcodes)

----------------------------------------------------------------------------
(* Capture identity *)

UniqueCapture(sample_type, sample_id, library_kit_id, capture_kit_id) ==
    [sample_type |-> sample_type, sample_id |-> sample_id,
     library_kit_id |-> library_kit_id, capture_kit_id |-> capture_kit_id]

\* split("-")[i] raises IndexError when the barcode has too few tokens
CanParse(clinseq_barcode) == Len(clinseq_barcode) >= 7

parse_sample_type(clinseq_barcode) == clinseq_barcode[4]

parse_sample_id(clinseq_barcode) == clinseq_barcode[5]

parse_prep_kit_id(clinseq_barcode) == First2(clinseq_barcode[6])

parse_capture_kit_id(clinseq_barcode) == First2(clinseq_barcode[7])

parse_capture_tuple(clinseq_barcode) ==
    UniqueCapture(parse_sample_type(clinseq_barcode),
                  parse_sample_id(clinseq_barcode),
                  parse_prep_kit_id(clinseq_barcode),
                  parse_capture_kit_id(clinseq_barcode))

\* the tokens of "{}-{}-{}-{}"
compose_sample_str(capture) ==
    <<capture.sample_type, capture.sample_id,
      capture.library_kit_id, capture.capture_kit_id>>

\* capture_kit_loopkup; a code outside the table raises KeyError
CaptureKitCodes == {"CS", "CZ", "EX", "EO", "RF", "CC", "CD", "CB", "AL", "TT", "CP", "CM", "WG"}

get_capture_name(capture_kit_code) ==
    CASE capture_kit_code = "WG" -> "lowpass_wgs"
      [] capture_kit_code = "CS" -> "clinseq_v3_targets"
      [] capture_kit_code = "CZ" -> "clinseq_v4"
      [] capture_kit_code = "EX" -> "EXOMEV3"
      [] capture_kit_code = "EO" -> "EXOMEV1"
      [] capture_kit_code = "RF" -> "fusion_v1"
      [] capture_kit_code = "CC" -> "core_design"
      [] capture_kit_code = "CD" -> "discovery_coho"
      [] capture_kit_code = "CB" -> "big_design"
      [] capture_kit_code = "AL" -> "alascca_targets"
      [] capture_kit_code = "TT" -> "test-regions"
      [] capture_kit_code = "CP" -> "progression"
      [] capture_kit_code = "CM" -> "monitor"
      [] OTHER -> "KeyError"

----------------------------------------------------------------------------
(* Results ledger records *)

SinglePanelResults ==
    [merged_bamfile |-> None, cnr |-> None, cns |-> None, cov_qc_call |-> None]

CancerVsNormalPanelResults ==
    [somatic_vcf |-> NoneTuple, msi_output |-> NoneTuple,
     hzconcordance_output |-> NoneTuple, vcf_addsample_output |-> NoneTuple,
     normal_contest_output |-> NoneTuple, cancer_contest_output |-> NoneTuple,
     cancer_contam_call |-> None]

\* a ledger field: which mapping, under which key, which attribute
Field(ledger, key, attr) == [ledger |-> ledger, key |-> key, attr |-> attr]

----------------------------------------------------------------------------
(* The pipeline object.  Every operation below takes the object and gives   *)
(* the object after it; once an exception is raised (exc) nothing further   *)
(* happens to it.                                                            *)

NoExc == "none"

NewPipeline(sampledata, refdata, libdir) ==
    [sampledata |-> sampledata,
     refdata |-> refdata,
     libdir |-> libdir,
     qc_files |-> <<>>,
     capture_to_results |-> <<>>,
     normal_capture_to_vcf |-> <<>>,
     normal_cancer_pair_to_results |-> <<>>,
     graph |-> <<>>,
     exc |-> NoExc,
     \* history of the pass, kept for the properties:
     assigned |-> <<>>,       \* ledger field -> number of assignments so far
     read_unset |-> {},       \* ledger fields read before any assignment
     failed_add |-> <<>>,     \* the rejected add(): its job and the graph before the call
     set_calls |-> 0,         \* set_* calls made on the constructed object
     checks |-> 0,            \* completed runs of check_sampledata
     subject |-> {},          \* the captures the running orchestrator call was given
     earlier |-> <<>>]        \* the outcome of an earlier construction, if compared

Raise(self, e) == IF self.exc # NoExc THEN self ELSE [self EXCEPT !.exc = e]

RaiseIf(self, cond, e) == IF cond THEN Raise(self, e) ELSE self

Job(kind, jobname, inputs, outputs, is_intermediate) ==
    [kind |-> kind, jobname |-> jobname, inputs |-> inputs, outputs |-> outputs,
     is_intermediate |-> is_intermediate]

\* the name of a job whose jobname the pipeline code never sets
DefaultJobName(self, kind) == Str(kind, <<ToString(Len(self.graph) + 1)>>, "")

JobNames(graph) == {graph[i].jobname : i \in 1..Len(graph)}

\* the graph node of a job: the job and the captures it was configured for
Node(self, job) ==
    [kind |-> job.kind, jobname |-> job.jobname, inputs |-> job.inputs,
     outputs |-> job.outputs, is_intermediate |-> job.is_intermediate,
     about |-> self.subject]

\* the orchestrator call about to run is given these captures
For(self, captures) == [self EXCEPT !.subject = captures]

\* add() that appends the job it rejects
add_keeps_rejected_job(self, job) ==
    IF self.exc # NoExc THEN self
    ELSE IF job.jobname \in JobNames(self.graph)
         THEN [self EXCEPT !.exc = "DuplicateJobNameError",
                           !.graph = Append(@, Node(self, job)),
                           !.failed_add = <<[job |-> job, graph_before |-> self.graph]>>]
         ELSE [self EXCEPT !.graph = Append(@, Node(self, job))]

\* PypedreamPipeline.add
add(self, job) ==
    IF self.exc # NoExc THEN self
    ELSE IF job.jobname \in JobNames(self.graph)
         THEN [self EXCEPT !.exc = "DuplicateJobNameError",
                           !.failed_add = <<[job |-> job, graph_before |-> self.graph]>>]
         ELSE [self EXCEPT !.graph = Append(@, Node(self, job))]

Count(assigned, f) == IF f \in DOMAIN assigned THEN assigned[f] ELSE 0

NoteAssigned(self, f) ==
    [self EXCEPT !.assigned = (f :> (Count(self.assigned, f) + 1)) @@ @]

NoteRead(self, f) ==
    IF self.exc # NoExc \/ Count(self.assigned, f) > 0 THEN self
    ELSE [self EXCEPT !.read_unset = @ \cup {f}]

\* collections.defaultdict: a lookup of an unseen key stores a fresh record
Vivify(results, key, fresh) ==
    IF key \in DOMAIN results THEN results ELSE (key :> fresh) @@ results

set_single(self, unique_capture, attr, value) ==
    IF self.exc # NoExc THEN self
    ELSE NoteAssigned(
           [self EXCEPT !.capture_to_results =
               [Vivify(@, unique_capture, SinglePanelResults)
                   EXCEPT ![unique_capture][attr] = value]],
           Field("single", <<unique_capture>>, attr))

set_pair(self, normal_capture, cancer_capture, attr, value) ==
    IF self.exc # NoExc THEN self
    ELSE NoteAssigned(
           [self EXCEPT !.normal_cancer_pair_to_results =
               [Vivify(@, <<normal_capture, cancer_capture>>, CancerVsNormalPanelResults)
                   EXCEPT ![<<normal_capture, cancer_capture>>][attr] = value]],
           Field("pair", <<normal_capture, cancer_capture>>, attr))

set_germline_vcf(self, normal_capture, vcf_filename) ==
    IF self.exc # NoExc THEN self
    ELSE NoteAssigned(
           [self EXCEPT !.normal_capture_to_vcf =
               (normal_capture :> vcf_filename) @@ @],
           Field("germline", <<normal_capture>>, "vcf"))

get_germline_vcf(self, normal_capture) ==
    IF normal_capture \in DOMAIN self.normal_capture_to_vcf
    THEN self.normal_capture_to_vcf[normal_capture]
    ELSE None

set_capture_bam(self, unique_capture, bam) ==
    set_single(self, unique_capture, "merged_bamfile", bam)

set_capture_cnr(self, unique_capture, cnr) ==
    set_single(self, unique_capture, "cnr", cnr)

set_capture_cns(self, unique_capture, cns) ==
    set_single(self, unique_capture, "cns", cns)

get_all_unique_captures(self) == DOMAIN self.capture_to_results

get_capture_bam(self, unique_capture) ==
    IF unique_capture \in get_all_unique_captures(self)
    THEN self.capture_to_results[unique_capture].merged_bamfile
    ELSE None

get_unique_normal_captures(self) ==
    {c \in get_all_unique_captures(self) : c.sample_type = "N"}

get_unique_cancer_captures(self) ==
    {c \in get_all_unique_captures(self) : c.sample_type # "N"}

get_unique_tumor_captures(self) ==
    {c \in get_all_unique_captures(self) : c.sample_type = "T"}

----------------------------------------------------------------------------
(* Reference data and library directory *)

\* self.refdata['targets'][key][field] raises KeyError when either key is absent
HasTarget(self, key, field) ==
    /\ key \in DOMAIN self.refdata.targets
    /\ field \in DOMAIN self.refdata.targets[key]

Target(self, key, field) ==
    IF HasTarget(self, key, field) THEN self.refdata.targets[key][field] ELSE None

RefFile(name) == Str("refdata:", <<name>>, "")

\* "{outdir}/<dir><tokens><suffix>"
Path(dir, toks, suffix) == Str("{outdir}/" \o dir, toks, suffix)

\* find_fastqs(barcode, libdir): the read pairs of a barcode, or (None, None)
find_fastqs(self, clinseq_barcode) ==
    IF clinseq_barcode \in self.libdir.fastqs
    THEN Str("fastq:", clinseq_barcode, ".fastq.gz")
    ELSE None

----------------------------------------------------------------------------
(* Sample data filter *)

\* a filter that asks for the data directory only
check_clinseq_barcode_for_data_directory_only(self, lib) ==
    lib \in self.libdir.dirs

check_clinseq_barcode_for_data(self, lib) ==
    /\ lib \in self.libdir.dirs
    /\ find_fastqs(self, lib) # None

FilterBarcodes(self, barcodes) ==
    SelectSeqIn(barcodes, {b \in Range(barcodes) : check_clinseq_barcode_for_data(self, b)})

check_sampledata(self) ==
    [self EXCEPT !.checks = @ + 1, !.sampledata =
        [sdid |-> @.sdid,
         panel |-> [st \in {"N", "T", "CFDNA"} |-> FilterBarcodes(self, @.panel[st])],
         wgs   |-> [st \in {"N", "T", "CFDNA"} |-> FilterBarcodes(self, @.wgs[st])]]]

get_all_clinseq_barcodes(self) ==
    self.sampledata.panel["T"] \o self.sampledata.panel["N"] \o self.sampledata.panel["CFDNA"]

\* raises IndexError at the first barcode parse_capture_tuple cannot split
CanIndex(self) == \A b \in Range(get_all_clinseq_barcodes(self)) : CanParse(b)

\* an index that keeps only the last barcode of a capture
get_unique_capture_to_clinseq_barcodes_last_only(self) ==
    LET all == get_all_clinseq_barcodes(self)
    IN [c \in {parse_capture_tuple(b) : b \in Range(all)} |->
            LET mine == SelectSeqIn(all, {b \in Range(all) : parse_capture_tuple(b) = c})
            IN <<mine[Len(mine)]>>]

get_unique_capture_to_clinseq_barcodes(self) ==
    LET all == get_all_clinseq_barcodes(self)
    IN [c \in {parse_capture_tuple(b) : b \in Range(all)} |->
            SelectSeqIn(all, {b \in Range(all) : parse_capture_tuple(b) = c})]

----------------------------------------------------------------------------
(* Align and merge *)

AlignedBam(lib) == Path("bams/panel/", lib, ".bam")

\* autoseq.tools.alignment.align_library: one alignment per barcode
align_library(self, lib) ==
    add(self, Job("align", Str("bwa-", lib, ""),
                  <<find_fastqs(self, lib), RefFile("bwaIndex")>>,
                  <<AlignedBam(lib)>>, FALSE))

RECURSIVE AlignAll(_, _)
AlignAll(self, barcodes) ==
    IF barcodes = <<>> THEN self
    ELSE AlignAll(align_library(self, Head(barcodes)), Tail(barcodes))

MergeSampleStr(unique_capture) ==
    <<unique_capture.sample_type, unique_capture.sample_id>>

MergeCaptureStr(unique_capture) ==
    MergeSampleStr(unique_capture)
        \o <<unique_capture.library_kit_id, unique_capture.capture_kit_id>>

MarkDupsBam(unique_capture) ==
    Path("bams/panel/", MergeCaptureStr(unique_capture), "-nodups.bam")

MarkDupsMetrics(unique_capture) ==
    Path("qc/picard/panel/", MergeCaptureStr(unique_capture), "-markdups-metrics.txt")

\* merge_and_rm_dup that registers the merged bam instead of the deduplicated one
merge_and_rm_dup_registers_merged(self, unique_capture, input_bams) ==
    LET merged_bam_filename ==
            Path("bams/panel/", MergeCaptureStr(unique_capture), ".bam")
        merge_bams ==
            Job("PicardMergeSamFiles",
                Str("picard-mergebams-", MergeSampleStr(unique_capture), ""),
                input_bams, <<merged_bam_filename>>, TRUE)
        s1 == add(self, merge_bams)
        markdups ==
            Job("PicardMarkDuplicates", DefaultJobName(s1, "PicardMarkDuplicates"),
                <<merged_bam_filename>>,
                <<MarkDupsBam(unique_capture), MarkDupsMetrics(unique_capture)>>, FALSE)
        s2 == add(s1, markdups)
        s3 == set_capture_bam(s2, unique_capture, merged_bam_filename)
    IN IF s3.exc # NoExc THEN s3
       ELSE [s3 EXCEPT !.qc_files = Append(@, MarkDupsMetrics(unique_capture))]

merge_and_rm_dup(self, unique_capture, input_bams) ==
    LET merged_bam_filename ==
            Path("bams/panel/", MergeCaptureStr(unique_capture), ".bam")
        merge_bams ==
            Job("PicardMergeSamFiles",
                Str("picard-mergebams-", MergeSampleStr(unique_capture), ""),
                input_bams, <<merged_bam_filename>>, TRUE)
        s1 == add(self, merge_bams)
        markdups ==
            Job("PicardMarkDuplicates", DefaultJobName(s1, "PicardMarkDuplicates"),
                <<merged_bam_filename>>,
                <<MarkDupsBam(unique_capture), MarkDupsMetrics(unique_capture)>>, FALSE)
        s2 == add(s1, markdups)
        s3 == set_capture_bam(s2, unique_capture, MarkDupsBam(unique_capture))
    IN IF s3.exc # NoExc THEN s3
       ELSE [s3 EXCEPT !.qc_files = Append(@, MarkDupsMetrics(unique_capture))]

\* an iteration that aligns and merges only the first barcode of the capture
align_and_merge_capture_first_barcode_only(self, unique_capture) ==
    LET barcodes == get_unique_capture_to_clinseq_barcodes(self)[unique_capture]
        s1 == AlignAll(self, <<Head(barcodes)>>)
    IN merge_and_rm_dup(s1, unique_capture, <<AlignedBam(Head(barcodes))>>)

\* one iteration of the loop of configure_align_and_merge
align_and_merge_capture(self, unique_capture) ==
    LET barcodes == get_unique_capture_to_clinseq_barcodes(self)[unique_capture]
        s1 == AlignAll(self, barcodes)
    IN merge_and_rm_dup(s1, unique_capture,
                        [i \in 1..Len(barcodes) |-> AlignedBam(barcodes[i])])

----------------------------------------------------------------------------
(* Per-capture and per-normal analyses *)

BamField(unique_capture) == Field("single", <<unique_capture>>, "merged_bamfile")

GermlineField(normal_capture) == Field("germline", <<normal_capture>>, "vcf")

PairField(normal_capture, cancer_capture, attr) ==
    Field("pair", <<normal_capture, cancer_capture>>, attr)

GermlineCaptureStr(normal_capture) ==
    <<normal_capture.sample_id, normal_capture.library_kit_id,
      normal_capture.capture_kit_id>>

\* germline calling that registers the raw call set although it was annotated
call_germline_variants_registers_raw(self, normal_capture, bam) ==
    LET targets == get_capture_name(normal_capture.capture_kit_id)
        capture_str == GermlineCaptureStr(normal_capture)
        s0 == RaiseIf(self, ~HasTarget(self, targets, "targets-bed-slopped20"), "KeyError")
        output == Path("variants/", capture_str, ".freebayes-germline.vcf.gz")
        freebayes ==
            Job("Freebayes", Str("freebayes-germline-", capture_str, ""),
                <<bam, RefFile("reference_genome"),
                  Target(self, targets, "targets-bed-slopped20")>>,
                <<output>>, FALSE)
        s1 == add(s0, freebayes)
        output_vcf == Path("variants/", capture_str, ".freebayes-germline.vep.vcf.gz")
        vep_freebayes ==
            Job("VEP", Str("vep-freebayes-germline-", capture_str, ""),
                <<output, RefFile("reference_genome"), self.refdata.vep_dir>>,
                <<output_vcf>>, FALSE)
    IN IF Truthy(self.refdata.vep_dir)
       THEN set_germline_vcf(add(s1, vep_freebayes), normal_capture, output)
       ELSE set_germline_vcf(s1, normal_capture, output)

call_germline_variants(self, normal_capture, bam) ==
    LET targets == get_capture_name(normal_capture.capture_kit_id)
        capture_str == GermlineCaptureStr(normal_capture)
        s0 == RaiseIf(self, ~HasTarget(self, targets, "targets-bed-slopped20"), "KeyError")
        output == Path("variants/", capture_str, ".freebayes-germline.vcf.gz")
        freebayes ==
            Job("Freebayes", Str("freebayes-germline-", capture_str, ""),
                <<bam, RefFile("reference_genome"),
                  Target(self, targets, "targets-bed-slopped20")>>,
                <<output>>, FALSE)
        s1 == add(s0, freebayes)
        output_vcf == Path("variants/", capture_str, ".freebayes-germline.vep.vcf.gz")
        vep_freebayes ==
            Job("VEP", Str("vep-freebayes-germline-", capture_str, ""),
                <<output, RefFile("reference_genome"), self.refdata.vep_dir>>,
                <<output_vcf>>, FALSE)
    IN IF Truthy(self.refdata.vep_dir)
       THEN set_germline_vcf(add(s1, vep_freebayes), normal_capture, output_vcf)
       ELSE set_germline_vcf(s1, normal_capture, output)

\* configure_panel_analysis_with_normal up to its loop over the cancer captures
panel_analysis_with_normal_head(self, normal_capture) ==
    LET s0 == RaiseIf(self, normal_capture.sample_type # "N", "ValueError")
        s1 == NoteRead(s0, BamField(normal_capture))
    IN call_germline_variants(s1, normal_capture, get_capture_bam(self, normal_capture))

configure_single_capture_analysis(self, unique_capture) ==
    LET input_bam == get_capture_bam(self, unique_capture)
        sample_str == compose_sample_str(unique_capture)
        targets == get_capture_name(unique_capture.capture_kit_id)
        s0 == NoteRead(self, BamField(unique_capture))
        s1 == RaiseIf(s0, ~HasTarget(self, targets, "cnvkit-ref"), "KeyError")
        use_ref == Truthy(Target(self, targets, "cnvkit-ref"))
        s2 == RaiseIf(s1, ~use_ref /\ ~HasTarget(self, targets, "targets-bed-slopped20"),
                      "KeyError")
        output_cnr == Path("cnv/", sample_str, ".cnr")
        output_cns == Path("cnv/", sample_str, ".cns")
        cnvkit ==
            Job("CNVkit", Str("cnvkit/", sample_str, ""),
                <<input_bam,
                  IF use_ref THEN Target(self, targets, "cnvkit-ref")
                  ELSE Target(self, targets, "targets-bed-slopped20")>>,
                <<output_cnr, output_cns>>, FALSE)
        s3 == set_capture_cnr(s2, unique_capture, output_cnr)
        s4 == set_capture_cns(s3, unique_capture, output_cns)
    IN add(s4, cnvkit)

----------------------------------------------------------------------------
(* Paired cancer-vs-normal analyses *)

SomaticVcf(tlib, nlib) == Path("variants/", tlib \o nlib, ".vardict-somatic.vcf.gz")

\* autoseq.tools.variantcalling.call_somatic_variants: one somatic-calling job
\* over the tumor bam (first input) and the normal bam (second input)
call_somatic_variants(self, tbam, nbam, tlib, nlib) ==
    add(self, Job("somatic", Str("vardict-", tlib \o nlib, ""),
                  <<tbam, nbam>>, <<SomaticVcf(tlib, nlib)>>, FALSE))

configure_somatic_calling(self, normal_capture, cancer_capture) ==
    LET s0 == NoteRead(NoteRead(self, BamField(normal_capture)), BamField(cancer_capture))
        tlib == compose_sample_str(cancer_capture)
        nlib == compose_sample_str(normal_capture)
        s1 == call_somatic_variants(s0, get_capture_bam(self, normal_capture),
                                    get_capture_bam(self, cancer_capture), tlib, nlib)
    IN set_pair(s1, normal_capture, cancer_capture, "somatic_vcf", SomaticVcf(tlib, nlib))

configure_vcf_add_sample(self, normal_capture, cancer_capture) ==
    LET s0 == NoteRead(NoteRead(self, BamField(cancer_capture)), GermlineField(normal_capture))
        normal_sample_str == compose_sample_str(normal_capture)
        cancer_sample_str == compose_sample_str(cancer_capture)
        output == Path("variants/", normal_sample_str \o <<"and">> \o cancer_sample_str,
                       ".germline-variants-with-somatic-afs.vcf.gz")
        vcfaddsample ==
            Job("VcfAddSample", Str("vcf-add-sample-", cancer_sample_str, ""),
                <<get_capture_bam(self, cancer_capture),
                  get_germline_vcf(self, normal_capture)>>,
                <<output>>, FALSE)
        s1 == add(s0, vcfaddsample)
    IN set_pair(s1, normal_capture, cancer_capture, "vcf_addsample_output", output)

configure_msi_sensor(self, normal_capture, cancer_capture) ==
    LET s0 == RaiseIf(self, ~HasTarget(self, cancer_capture.capture_kit_id, "msisites"),
                      "KeyError")
        s1 == NoteRead(NoteRead(s0, BamField(normal_capture)), BamField(cancer_capture))
        normal_capture_str == compose_sample_str(normal_capture)
        cancer_capture_str == compose_sample_str(cancer_capture)
        output == Path("msisensor-", normal_capture_str \o cancer_capture_str, ".tsv")
        msisensor ==
            Job("MsiSensor",
                Str("msisensor-", normal_capture_str \o cancer_capture_str, ""),
                <<Target(self, cancer_capture.capture_kit_id, "msisites"),
                  get_capture_bam(self, normal_capture),
                  get_capture_bam(self, cancer_capture)>>,
                <<output>>, FALSE)
        s2 == set_pair(s1, normal_capture, cancer_capture, "msi_output", output)
    IN add(s2, msisensor)

\* configure_hz_conc that stores its output in the MSI field
configure_hz_conc_stores_in_msi(self, normal_capture, cancer_capture) ==
    LET s0 == NoteRead(NoteRead(self, GermlineField(normal_capture)), BamField(cancer_capture))
        s1 == RaiseIf(s0, ~HasTarget(self, cancer_capture.capture_kit_id,
                                     "targets-interval_list-slopped20"), "KeyError")
        output == Path("bams/", compose_sample_str(cancer_capture)
                                   \o compose_sample_str(normal_capture),
                       "-hzconcordance.txt")
        hzconcordance ==
            Job("HeterzygoteConcordance",
                Str("hzconcordance-", compose_sample_str(cancer_capture), ""),
                <<get_germline_vcf(self, normal_capture),
                  get_capture_bam(self, cancer_capture),
                  RefFile("reference_genome"),
                  Target(self, cancer_capture.capture_kit_id,
                         "targets-interval_list-slopped20")>>,
                <<output>>, FALSE)
        s2 == set_pair(s1, normal_capture, cancer_capture, "msi_output", output)
    IN add(s2, hzconcordance)

configure_hz_conc(self, normal_capture, cancer_capture) ==
    LET s0 == NoteRead(NoteRead(self, GermlineField(normal_capture)), BamField(cancer_capture))
        s1 == RaiseIf(s0, ~HasTarget(self, cancer_capture.capture_kit_id,
                                     "targets-interval_list-slopped20"), "KeyError")
        output == Path("bams/", compose_sample_str(cancer_capture)
                                   \o compose_sample_str(normal_capture),
                       "-hzconcordance.txt")
        hzconcordance ==
            Job("HeterzygoteConcordance",
                Str("hzconcordance-", compose_sample_str(cancer_capture), ""),
                <<get_germline_vcf(self, normal_capture),
                  get_capture_bam(self, cancer_capture),
                  RefFile("reference_genome"),
                  Target(self, cancer_capture.capture_kit_id,
                         "targets-interval_list-slopped20")>>,
                <<output>>, FALSE)
        s2 == set_pair(s1, normal_capture, cancer_capture, "hzconcordance_output", output)
    IN add(s2, hzconcordance)

ContestVcf(normal_capture, cancer_capture) ==
    Path("contamination/pop_vcf_",
         compose_sample_str(normal_capture) \o compose_sample_str(cancer_capture), ".vcf")

configure_contest_vcf_generation(self, normal_capture, cancer_capture) ==
    add(self,
        Job("CreateContestVCFs",
            Str("contest_pop_vcf_",
                compose_sample_str(normal_capture) \o compose_sample_str(cancer_capture), ""),
            <<RefFile("swegene_common"),
              Str("UniqueCapture", compose_sample_str(normal_capture), ""),
              Str("UniqueCapture", compose_sample_str(cancer_capture), "")>>,
            <<ContestVcf(normal_capture, cancer_capture)>>, FALSE))

ContestOutput(library_capture_1) ==
    Path("contamination/", compose_sample_str(library_capture_1), ".contest.txt")

configure_contest(self, library_capture_1, library_capture_2, contest_vcf) ==
    LET s0 == NoteRead(NoteRead(self, BamField(library_capture_1)),
                       BamField(library_capture_2))
    IN add(s0,
           Job("ContEst", Str("contest_tumor/", compose_sample_str(library_capture_1), ""),
               <<RefFile("reference_genome"),
                 get_capture_bam(self, library_capture_1),
                 get_capture_bam(self, library_capture_2),
                 contest_vcf>>,
               <<ContestOutput(library_capture_1)>>, FALSE))

\* the output name formats the list self.sampledata['panel']['T'] itself
ContamQcCall(self) ==
    Path("qc/", Flatten(self.sampledata.panel["T"]), "-contam-qc-call.json")

configure_contam_qc_call(self, contest_output) ==
    add(self,
        Job("ContEstToContamCaveat", DefaultJobName(self, "ContEstToContamCaveat"),
            <<contest_output>>, <<ContamQcCall(self)>>, FALSE))

\* a contamination estimate whose verdict is derived from the normal-vs-cancer result
configure_contamination_estimate_verdict_of_normal(self, normal_capture, cancer_capture) ==
    LET intersection_contest_vcf == ContestVcf(normal_capture, cancer_capture)
        s1 == configure_contest_vcf_generation(self, normal_capture, cancer_capture)
        cancer_vs_normal_contest_output == ContestOutput(cancer_capture)
        s2 == configure_contest(s1, cancer_capture, normal_capture, intersection_contest_vcf)
        normal_vs_cancer_contest_output == ContestOutput(normal_capture)
        s3 == configure_contest(s2, normal_capture, cancer_capture, intersection_contest_vcf)
        s4 == configure_contam_qc_call(s3, normal_vs_cancer_contest_output)
        s5 == set_pair(s4, normal_capture, cancer_capture, "normal_contest_output",
                       normal_vs_cancer_contest_output)
        s6 == set_pair(s5, normal_capture, cancer_capture, "cancer_contest_output",
                       cancer_vs_normal_contest_output)
    IN set_pair(s6, normal_capture, cancer_capture, "cancer_contam_call", ContamQcCall(self))

configure_contamination_estimate(self, normal_capture, cancer_capture) ==
    LET intersection_contest_vcf == ContestVcf(normal_capture, cancer_capture)
        s1 == configure_contest_vcf_generation(self, normal_capture, cancer_capture)
        cancer_vs_normal_contest_output == ContestOutput(cancer_capture)
        s2 == configure_contest(s1, cancer_capture, normal_capture, intersection_contest_vcf)
        normal_vs_cancer_contest_output == ContestOutput(normal_capture)
        s3 == configure_contest(s2, normal_capture, cancer_capture, intersection_contest_vcf)
        s4 == configure_contam_qc_call(s3, cancer_vs_normal_contest_output)
        s5 == set_pair(s4, normal_capture, cancer_capture, "normal_contest_output",
                       normal_vs_cancer_contest_output)
        s6 == set_pair(s5, normal_capture, cancer_capture, "cancer_contest_output",
                       cancer_vs_normal_contest_output)
    IN set_pair(s6, normal_capture, cancer_capture, "cancer_contam_call", ContamQcCall(self))

\* a paired analysis that configures the MSI sensor before the germline-VCF enrichment
configure_panel_analysis_cancer_vs_normal_msi_first(self, normal_capture, cancer_capture) ==
    LET s1 == configure_somatic_calling(self, normal_capture, cancer_capture)
        s2 == configure_msi_sensor(s1, normal_capture, cancer_capture)
        s3 == configure_vcf_add_sample(s2, normal_capture, cancer_capture)
        s4 == configure_hz_conc(s3, normal_capture, cancer_capture)
    IN configure_contamination_estimate(s4, normal_capture, cancer_capture)

configure_panel_analysis_cancer_vs_normal(self, normal_capture, cancer_capture) ==
    LET s1 == configure_somatic_calling(self, normal_capture, cancer_capture)
        s2 == configure_vcf_add_sample(s1, normal_capture, cancer_capture)
        s3 == configure_msi_sensor(s2, normal_capture, cancer_capture)
        s4 == configure_hz_conc(s3, normal_capture, cancer_capture)
    IN configure_contamination_estimate(s4, normal_capture, cancer_capture)

----------------------------------------------------------------------------
(* QC *)

CovQcCall(unique_capture) ==
    Path("qc/", compose_sample_str(unique_capture), ".coverage-qc-call.json")

\* the list configure_panel_qc returns
PanelQcFiles(unique_capture) ==
    LET capture_str == compose_sample_str(unique_capture)
    IN <<Path("qc/picard/panel/", capture_str, ".picard-insertsize.txt"),
         Path("qc/picard/panel/", capture_str, ".picard-oxog.txt"),
         Path("qc/picard/panel/", capture_str, ".picard-hsmetrics.txt"),
         Path("qc/sambamba/", capture_str, ".sambamba-depth-targets.txt"),
         Path("qc/", capture_str, ".coverage-histogram.txt"),
         CovQcCall(unique_capture)>>

\* a panel QC whose coverage verdict reads the alignment instead of the histogram
configure_panel_qc_verdict_reads_bam(self, unique_capture) ==
    LET bam == get_capture_bam(self, unique_capture)
        targets == get_capture_name(unique_capture.capture_kit_id)
        capture_str == compose_sample_str(unique_capture)
        out == PanelQcFiles(unique_capture)
        s0 == NoteRead(self, BamField(unique_capture))
        s1 == add(s0, Job("PicardCollectInsertSizeMetrics",
                          Str("picard-isize-", capture_str, ""),
                          <<bam>>, <<out[1]>>, FALSE))
        s2 == add(s1, Job("PicardCollectOxoGMetrics",
                          Str("picard-oxog-", capture_str, ""),
                          <<bam, RefFile("reference_genome")>>, <<out[2]>>, FALSE))
        s3 == RaiseIf(s2, ~HasTarget(self, targets, "targets-interval_list-slopped20"),
                      "KeyError")
        s4 == add(s3, Job("PicardCollectHsMetrics",
                          Str("picard-hsmetrics-", capture_str, ""),
                          <<bam, RefFile("reference_genome"),
                            Target(self, targets, "targets-interval_list-slopped20")>>,
                          <<out[3]>>, FALSE))
        s5 == RaiseIf(s4, ~HasTarget(self, targets, "targets-bed-slopped20"), "KeyError")
        s6 == add(s5, Job("SambambaDepth", Str("sambamba-depth-", capture_str, ""),
                          <<Target(self, targets, "targets-bed-slopped20"), bam>>,
                          <<out[4]>>, FALSE))
        s7 == add(s6, Job("CoverageHistogram",
                          Str("alascca-coverage-hist/", capture_str, ""),
                          <<Target(self, targets, "targets-bed-slopped20"), bam>>,
                          <<out[5]>>, FALSE))
        s8 == add(s7, Job("CoverageCaveat", Str("coverage-qc-call/", capture_str, ""),
                          <<bam>>, <<out[6]>>, FALSE))
    IN set_single(s8, unique_capture, "cov_qc_call", out[6])

configure_panel_qc(self, unique_capture) ==
    LET bam == get_capture_bam(self, unique_capture)
        targets == get_capture_name(unique_capture.capture_kit_id)
        capture_str == compose_sample_str(unique_capture)
        out == PanelQcFiles(unique_capture)
        s0 == NoteRead(self, BamField(unique_capture))
        s1 == add(s0, Job("PicardCollectInsertSizeMetrics",
                          Str("picard-isize-", capture_str, ""),
                          <<bam>>, <<out[1]>>, FALSE))
        s2 == add(s1, Job("PicardCollectOxoGMetrics",
                          Str("picard-oxog-", capture_str, ""),
                          <<bam, RefFile("reference_genome")>>, <<out[2]>>, FALSE))
        s3 == RaiseIf(s2, ~HasTarget(self, targets, "targets-interval_list-slopped20"),
                      "KeyError")
        s4 == add(s3, Job("PicardCollectHsMetrics",
                          Str("picard-hsmetrics-", capture_str, ""),
                          <<bam, RefFile("reference_genome"),
                            Target(self, targets, "targets-interval_list-slopped20")>>,
                          <<out[3]>>, FALSE))
        s5 == RaiseIf(s4, ~HasTarget(self, targets, "targets-bed-slopped20"), "KeyError")
        s6 == add(s5, Job("SambambaDepth", Str("sambamba-depth-", capture_str, ""),
                          <<Target(self, targets, "targets-bed-slopped20"), bam>>,
                          <<out[4]>>, FALSE))
        s7 == add(s6, Job("CoverageHistogram",
                          Str("alascca-coverage-hist/", capture_str, ""),
                          <<Target(self, targets, "targets-bed-slopped20"), bam>>,
                          <<out[5]>>, FALSE))
        s8 == add(s7, Job("CoverageCaveat", Str("coverage-qc-call/", capture_str, ""),
                          <<out[5]>>, <<out[6]>>, FALSE))
    IN set_single(s8, unique_capture, "cov_qc_call", out[6])

\* one iteration of the loop of configure_all_panel_qcs
all_panel_qcs_capture(self, unique_capture) ==
    LET s1 == configure_panel_qc(self, unique_capture)
    IN IF s1.exc # NoExc THEN s1
       ELSE [s1 EXCEPT !.qc_files = @ \o PanelQcFiles(unique_capture)]

get_all_fastq_files(self) ==
    LET all == get_all_clinseq_barcodes(self)
    IN [i \in 1..Len(all) |-> find_fastqs(self, all[i])]

FastqcOutput(fq) == Path("qc/fastqc/", fq.toks, "_fastqc.zip")

RECURSIVE FastqcAll(_, _)
FastqcAll(self, fqs) ==
    IF fqs = <<>> THEN self
    ELSE FastqcAll(add(For(self, {parse_capture_tuple(Head(fqs).toks)}),
                       Job("FastQC", Str("fastqc-", Head(fqs).toks, ""),
                           <<Head(fqs)>>, <<FastqcOutput(Head(fqs))>>, FALSE)),
                   Tail(fqs))

\* the list of output names it returns is dropped by AlasccaPipeline.__init__
configure_fastq_qcs(self) == FastqcAll(self, get_all_fastq_files(self))

configure_multi_qc(self) ==
    add(self, Job("MultiQC", Str("multiqc-", <<self.sampledata.sdid>>, ""),
                  self.qc_files,
                  <<Path("multiqc/", <<self.sampledata.sdid>>, "-multiqc")>>, FALSE))

----------------------------------------------------------------------------
(* ALASCCA report *)

CohortShapeOK(self) ==
    /\ Cardinality(get_unique_cancer_captures(self)) = 1
    /\ Cardinality(get_unique_normal_captures(self)) = 1

\* get_unique_normal_captures()[0], read for both components
get_normal_and_tumor_captures(self) ==
    LET normal_capture == CHOOSE c \in get_unique_normal_captures(self) : TRUE
        tumor_capture == CHOOSE c \in get_unique_normal_captures(self) : TRUE
    IN <<normal_capture, tumor_capture>>

\* the two defaultdict lookups that open the report steps
VivifyPair(self, normal_capture, tumor_capture) ==
    [self EXCEPT !.normal_cancer_pair_to_results =
        Vivify(@, <<normal_capture, tumor_capture>>, CancerVsNormalPanelResults)]

VivifySingle(self, unique_capture) ==
    [self EXCEPT !.capture_to_results = Vivify(@, unique_capture, SinglePanelResults)]

RECURSIVE NoteReads(_, _)
NoteReads(self, fields) ==
    IF fields = <<>> THEN self ELSE NoteReads(NoteRead(self, Head(fields)), Tail(fields))

AlasccaCnaOutput(tumor_capture) ==
    Path("variants/", compose_sample_str(tumor_capture), "-alascca-cna.json")

AlasccaPurityOutput(tumor_capture) ==
    Path("variants/", compose_sample_str(tumor_capture), "-alascca-purity.json")

configure_alascca_cna(self, normal_capture, tumor_capture) ==
    LET s0 == VivifySingle(VivifyPair(self, normal_capture, tumor_capture), tumor_capture)
        tumor_vs_normal_results ==
            s0.normal_cancer_pair_to_results[<<normal_capture, tumor_capture>>]
        tumor_results == s0.capture_to_results[tumor_capture]
        s1 == NoteReads(s0, <<PairField(normal_capture, tumor_capture, "somatic_vcf"),
                              PairField(normal_capture, tumor_capture, "vcf_addsample_output"),
                              Field("single", <<tumor_capture>>, "cnr"),
                              Field("single", <<tumor_capture>>, "cns")>>)
        tumor_str == compose_sample_str(tumor_capture)
    IN add(s1, Job("AlasccaCNAPlot", Str("alascca-cna/", tumor_str, ""),
                   <<tumor_vs_normal_results.somatic_vcf,
                     tumor_vs_normal_results.vcf_addsample_output,
                     tumor_results.cnr, tumor_results.cns, RefFile("chrsizes")>>,
                   <<AlasccaCnaOutput(tumor_capture), AlasccaPurityOutput(tumor_capture),
                     Path("qc/", tumor_str, "-alascca-cna.png")>>, FALSE))

MetadataJson(normal_capture, tumor_capture) ==
    Path("report/", <<normal_capture.sample_id, tumor_capture.sample_id>>, ".metadata.json")

configure_compile_metadata(self, normal_capture, tumor_capture) ==
    add(self, Job("CompileMetadata",
                  Str("compile-metadata/",
                      <<tumor_capture.sample_id, normal_capture.sample_id>>, ""),
                  <<RefFile("referral_db_conf"), RefFile("addresses")>>,
                  <<MetadataJson(normal_capture, tumor_capture)>>, FALSE))

GenomicJson(normal_capture, tumor_capture) ==
    Path("report/", <<normal_capture.sample_id, tumor_capture.sample_id>>, ".genomic.json")

configure_compile_genomic_json(self, normal_capture, tumor_capture, alascca_cna_output, alascca_cna_purity_call) ==
    LET s0 == VivifySingle(VivifySingle(VivifyPair(self, normal_capture, tumor_capture),
                                        tumor_capture), normal_capture)
        tumor_vs_normal_results ==
            s0.normal_cancer_pair_to_results[<<normal_capture, tumor_capture>>]
        tumor_results == s0.capture_to_results[tumor_capture]
        normal_results == s0.capture_to_results[normal_capture]
        s1 == NoteReads(s0, <<PairField(normal_capture, tumor_capture, "somatic_vcf"),
                              PairField(normal_capture, tumor_capture, "msi_output"),
                              PairField(normal_capture, tumor_capture, "cancer_contam_call"),
                              Field("single", <<tumor_capture>>, "cov_qc_call"),
                              Field("single", <<normal_capture>>, "cov_qc_call")>>)
    IN add(s1, Job("CompileAlasccaGenomicJson",
                   Str("compile-genomic/",
                       <<tumor_capture.sample_id, normal_capture.sample_id>>, ""),
                   <<tumor_vs_normal_results.somatic_vcf, alascca_cna_output,
                     tumor_vs_normal_results.msi_output, alascca_cna_purity_call,
                     tumor_vs_normal_results.cancer_contam_call,
                     tumor_results.cov_qc_call, normal_results.cov_qc_call>>,
                   <<GenomicJson(normal_capture, tumor_capture)>>, FALSE))

configure_write_alascca_report(self, normal_capture, tumor_capture, metadata_json, genomic_json) ==
    add(self, Job("WriteAlasccaReport",
                  Str("writeAlasccaPdf/",
                      <<tumor_capture.sample_id, normal_capture.sample_id>>, ""),
                  <<genomic_json, metadata_json>>,
                  <<Path("report/AlasccaReport-",
                         <<normal_capture.sample_id, tumor_capture.sample_id>>, ".pdf")>>,
                  FALSE))

\* report generation that compiles the genomic findings before the metadata
configure_alascca_report_generation_genomic_first(self, normal_capture, tumor_capture, alascca_cna_output, alascca_cna_purity_call) ==
    LET s1 == configure_compile_genomic_json(self, normal_capture, tumor_capture,
                                             alascca_cna_output, alascca_cna_purity_call)
        s2 == configure_compile_metadata(s1, normal_capture, tumor_capture)
    IN configure_write_alascca_report(s2, normal_capture, tumor_capture,
                                      MetadataJson(normal_capture, tumor_capture),
                                      GenomicJson(normal_capture, tumor_capture))

configure_alascca_report_generation(self, normal_capture, tumor_capture, alascca_cna_output, alascca_cna_purity_call) ==
    LET s1 == configure_compile_metadata(self, normal_capture, tumor_capture)
        s2 == configure_compile_genomic_json(s1, normal_capture, tumor_capture,
                                             alascca_cna_output, alascca_cna_purity_call)
    IN configure_write_alascca_report(s2, normal_capture, tumor_capture,
                                      MetadataJson(normal_capture, tumor_capture),
                                      GenomicJson(normal_capture, tumor_capture))

configure_alascca_specific_analysis(self) ==
    IF ~CohortShapeOK(self) THEN Raise(self, "ValueError")
    ELSE LET captures == get_normal_and_tumor_captures(self)
             normal_capture == captures[1]
             tumor_capture == captures[2]
             s1 == configure_alascca_cna(self, normal_capture, tumor_capture)
         IN configure_alascca_report_generation(
                s1, normal_capture, tumor_capture,
                AlasccaCnaOutput(tumor_capture), AlasccaPurityOutput(tumor_capture))

----------------------------------------------------------------------------
(* Inputs of a construction *)

Barcodes(sampledata) ==
    Range(sampledata.panel["N"]) \cup Range(sampledata.panel["T"])
        \cup Range(sampledata.panel["CFDNA"])

SampleDatas ==
    {[sdid |-> "SD1",
      panel |-> [st \in {"N", "T", "CFDNA"} |->
                    CASE st = "N" -> SelectSeqIn(NormalBarcodes, chosen)
                      [] st = "T" -> SelectSeqIn(TumorBarcodes, chosen)
                      [] OTHER -> SelectSeqIn(CfdnaBarcodes, chosen)],
      wgs |-> [st \in {"N", "T", "CFDNA"} |-> <<>>]] :
        chosen \in {bs \in SUBSET AllBarcodes : Cardinality(bs) <= MaxBarcodes}}

\* a barcode lacks its directory, or has one without read pairs
LibDirs(sampledata) ==
    {[dirs |-> Barcodes(sampledata) \ nodir,
      fastqs |-> Barcodes(sampledata) \ (nodir \cup nofastq)] :
        <<nodir, nofastq>> \in
            {nn \in (SUBSET Barcodes(sampledata)) \X (SUBSET Barcodes(sampledata)) :
                /\ nn[1] \cap nn[2] = {}
                /\ Cardinality(nn[1] \cup nn[2]) <= MaxNoData}}

KitCodesInUse == {"CS", "AL"}

TargetFiles(key, without) ==
    [field \in {"targets-bed-slopped20", "targets-interval_list-slopped20",
                "cnvkit-ref", "msisites"} \ without |->
        Str("refdata:", <<key, field>>, "")]

\* bundles keyed by capture kit name, and optionally by the two-letter code too;
\* one lacks the target bed of kit CS, one carries no CNVkit reference
Targets(with_codes, cs_bed, cnvkit_ref) ==
    [key \in {get_capture_name(k) : k \in KitCodesInUse}
                \cup (IF with_codes THEN KitCodesInUse ELSE {}) |->
        LET files == TargetFiles(key,
                        IF ~cs_bed /\ key \in {"CS", get_capture_name("CS")}
                        THEN {"targets-bed-slopped20"} ELSE {})
        IN IF cnvkit_ref THEN files ELSE [files EXCEPT !["cnvkit-ref"] = None]]

RefDatas ==
    {[vep_dir |-> vep, targets |-> tg] :
        vep \in {None, RefFile("vep_dir")},
        tg \in {Targets(TRUE, TRUE, TRUE), Targets(FALSE, TRUE, TRUE),
                Targets(TRUE, FALSE, TRUE), Targets(TRUE, TRUE, FALSE),
                Targets(TRUE, FALSE, FALSE)}}

----------------------------------------------------------------------------
(* The build pass: AlasccaPipeline.__init__ *)

\* __init__ with the aggregation job configured before the fastq QC
InitCalls_multi_qc_before_fastq ==
    <<"check_sampledata", "configure_panel_analyses",
      "configure_alascca_specific_analysis", "configure_all_panel_qcs",
      "configure_multi_qc", "configure_fastq_qcs">>

\* the calls of __init__ after validate_sample_data_for_alascca (a no-op), in order
\* a constructor that filters the sample data after the panel analyses
InitCalls_check_after_panel_analyses ==
    <<"configure_panel_analyses", "check_sampledata",
      "configure_alascca_specific_analysis", "configure_all_panel_qcs",
      "configure_fastq_qcs", "configure_multi_qc">>

InitCalls ==
    <<"check_sampledata", "configure_panel_analyses",
      "configure_alascca_specific_analysis", "configure_all_panel_qcs",
      "configure_fastq_qcs", "configure_multi_qc">>

NextCall(call) ==
    LET i == CHOOSE j \in 1..Len(InitCalls) : InitCalls[j] = call
    IN IF i = Len(InitCalls) THEN "done" ELSE InitCalls[i + 1]

Ctl(at, keys, normal, cancers) == [pc |-> at, todo |-> keys, cur |-> normal, todoC |-> cancers]

\* where the pass stands on entering a call of __init__: a loop over no key is skipped
RECURSIVE Enter(_, _)
Enter(self, call) ==
    IF call = "configure_all_panel_qcs"
    THEN IF get_all_unique_captures(self) = {} THEN Enter(self, NextCall(call))
         ELSE Ctl(call, get_all_unique_captures(self), <<>>, {})
    ELSE Ctl(call, {}, <<>>, {})

\* configure_panel_analyses: the loop over the normal captures
GoNormals(self, normals) ==
    IF normals # {} THEN Ctl("with_normal", normals, <<>>, {})
    ELSE Enter(self, NextCall("configure_panel_analyses"))

\* configure_panel_analysis_with_normal: the loop over the cancer captures
GoPairs(self, normals, normal_capture, cancers) ==
    IF cancers # {} THEN Ctl("cancer_vs_normal", normals, <<normal_capture>>, cancers)
    ELSE GoNormals(self, normals)

\* configure_panel_analyses: the loop over the cancer captures
GoSingles(self, cancers) ==
    IF cancers # {} THEN Ctl("single_capture", cancers, <<>>, {})
    ELSE GoNormals(self, get_unique_normal_captures(self))

\* a configure_panel_analyses whose single-capture loop ranges over every capture
GoAlign_singles_over_all_captures(self, captures) ==
    IF captures # {} THEN Ctl("align_and_merge", captures, <<>>, {})
    ELSE GoSingles(self, get_all_unique_captures(self))

\* configure_align_and_merge: the loop over the capture index
GoAlign(self, captures) ==
    IF captures # {} THEN Ctl("align_and_merge", captures, <<>>, {})
    ELSE GoSingles(self, get_unique_cancer_captures(self))

\* a step whose exception is caught: construction returns the object as it is
Step_swallows_exception(self, ctl) ==
    /\ pipeline' = self
    /\ LET c == IF self.exc # NoExc THEN Ctl("done", {}, <<>>, {}) ELSE ctl
       IN /\ pc' = c.pc
          /\ todo' = c.todo
          /\ cur' = c.cur
          /\ todoC' = c.todoC

\* the object after a step, and where the pass goes: an exception ends it
Step(self, ctl) ==
    /\ pipeline' = self
    /\ LET c == IF self.exc # NoExc THEN Ctl("raised", {}, <<>>, {}) ELSE ctl
       IN /\ pc' = c.pc
          /\ todo' = c.todo
          /\ cur' = c.cur
          /\ todoC' = c.todoC

Init ==
    /\ \E sampledata \in SampleDatas, rd \in RefDatas :
         \E ld \in LibDirs(sampledata) :
            pipeline = NewPipeline(sampledata, rd, ld)
    /\ pc = InitCalls[1]
    /\ todo = {}
    /\ cur = <<>>
    /\ todoC = {}

CheckSampledata ==
    /\ pc = "check_sampledata"
    /\ LET s == check_sampledata(pipeline)
       IN Step(s, Enter(s, NextCall("check_sampledata")))

\* configure_panel_analyses enters configure_align_and_merge, which builds the
\* capture index
ConfigurePanelAnalyses ==
    /\ pc = "configure_panel_analyses"
    /\ LET s == RaiseIf(pipeline, ~CanIndex(pipeline), "IndexError")
       IN Step(s, GoAlign(s, IF CanIndex(pipeline)
                             THEN DOMAIN get_unique_capture_to_clinseq_barcodes(pipeline)
                             ELSE {}))

AlignAndMerge ==
    /\ pc = "align_and_merge"
    /\ \E unique_capture \in todo :
         LET s == align_and_merge_capture(For(pipeline, {unique_capture}), unique_capture)
         IN Step(s, GoAlign(s, todo \ {unique_capture}))

SingleCaptureAnalysis ==
    /\ pc = "single_capture"
    /\ \E unique_capture \in todo :
         LET s == configure_single_capture_analysis(For(pipeline, {unique_capture}),
                                                       unique_capture)
         IN Step(s, GoSingles(s, todo \ {unique_capture}))

PanelAnalysisWithNormal ==
    /\ pc = "with_normal"
    /\ \E normal_capture \in todo :
         LET s == panel_analysis_with_normal_head(For(pipeline, {normal_capture}),
                                                     normal_capture)
         IN Step(s, GoPairs(s, todo \ {normal_capture}, normal_capture,
                            get_unique_cancer_captures(s)))

PanelAnalysisCancerVsNormal ==
    /\ pc = "cancer_vs_normal"
    /\ \E cancer_capture \in todoC :
         LET s == configure_panel_analysis_cancer_vs_normal(
                      For(pipeline, {cur[1], cancer_capture}), cur[1], cancer_capture)
         IN Step(s, GoPairs(s, todo, cur[1], todoC \ {cancer_capture}))

AlasccaSpecificAnalysis ==
    /\ pc = "configure_alascca_specific_analysis"
    /\ LET s == configure_alascca_specific_analysis(
                  For(pipeline, get_all_unique_captures(pipeline)))
       IN Step(s, Enter(s, NextCall("configure_alascca_specific_analysis")))

AllPanelQcs ==
    /\ pc = "configure_all_panel_qcs"
    /\ \E unique_capture \in todo :
         LET s == all_panel_qcs_capture(For(pipeline, {unique_capture}), unique_capture)
         IN Step(s, IF todo \ {unique_capture} # {}
                    THEN Ctl("configure_all_panel_qcs", todo \ {unique_capture}, <<>>, {})
                    ELSE Enter(s, NextCall("configure_all_panel_qcs")))

FastqQcs ==
    /\ pc = "configure_fastq_qcs"
    /\ LET s == configure_fastq_qcs(pipeline)
       IN Step(s, Enter(s, NextCall("configure_fastq_qcs")))

MultiQc ==
    /\ pc = "configure_multi_qc"
    /\ LET s == configure_multi_qc(For(pipeline, get_all_unique_captures(pipeline)))
       IN Step(s, Enter(s, NextCall("configure_multi_qc")))

\* the command line starts the pipeline it has constructed
Start ==
    /\ pc = "done"
    /\ pc' = "started"
    /\ UNCHANGED <<pipeline, todo, cur, todoC>>

Next ==
    \/ CheckSampledata
    \/ ConfigurePanelAnalyses
    \/ AlignAndMerge
    \/ SingleCaptureAnalysis
    \/ PanelAnalysisWithNormal
    \/ PanelAnalysisCancerVsNormal
    \/ AlasccaSpecificAnalysis
    \/ AllPanelQcs
    \/ FastqQcs
    \/ MultiQc
    \/ Start

Spec == Init /\ [][Next]_vars

----------------------------------------------------------------------------
(* Calls of the ledger setters on the constructed object *)

\* largest number of set_* calls made after construction
MaxSetCalls == 1

ClientValue == Str("client:", <<"file">>, "")

ClientCall(self) ==
    /\ pc = "done"
    /\ pipeline.set_calls < MaxSetCalls
    /\ pipeline' = [self EXCEPT !.set_calls = @ + 1]
    /\ UNCHANGED <<pc, todo, cur, todoC>>

SetGermlineVcf ==
    \E normal_capture \in get_unique_normal_captures(pipeline) :
        ClientCall(set_germline_vcf(pipeline, normal_capture, ClientValue))

SetCaptureBam ==
    \E unique_capture \in get_all_unique_captures(pipeline) :
        ClientCall(set_capture_bam(pipeline, unique_capture, ClientValue))

SetCaptureCnr ==
    \E unique_capture \in get_all_unique_captures(pipeline) :
        ClientCall(set_capture_cnr(pipeline, unique_capture, ClientValue))

SetCaptureCns ==
    \E unique_capture \in get_all_unique_captures(pipeline) :
        ClientCall(set_capture_cns(pipeline, unique_capture, ClientValue))

NextWithSetters ==
    \/ Next
    \/ SetGermlineVcf
    \/ SetCaptureBam
    \/ SetCaptureCnr
    \/ SetCaptureCns

SpecSetters == Init /\ [][NextWithSetters]_vars

----------------------------------------------------------------------------
(* A second construction, for comparing two build passes *)

\* the name of the job is the default one, which the pipeline code does not choose
HasDefaultName(node) == node.jobname = Str(node.kind, node.jobname.toks, "")

\* what a registered job is to the execution engine: its tool, the captures it was
\* configured for, its name where the code sets one, its input files and its
\* output paths
JobSignature(node) ==
    [kind |-> node.kind, about |-> node.about,
     jobname |-> IF HasDefaultName(node) THEN None ELSE node.jobname,
     inputs |-> node.inputs, outputs |-> node.outputs]

\* a signature with its input files taken as a set
Unordered(signature) == [signature EXCEPT !.inputs = Range(@)]

Signatures(graph) == {JobSignature(graph[i]) : i \in 1..Len(graph)}

\* the library directory without the data directories of some barcodes
WithoutDirs(libdir, barcodes) ==
    [dirs |-> libdir.dirs \ barcodes, fastqs |-> libdir.fastqs]

\* AlasccaPipeline is constructed again over the same (filtered) sample description
\* and reference data; the data directory of at most one barcode is gone meanwhile
Rebuild ==
    /\ pc \in {"done", "raised"}
    /\ pipeline.earlier = <<>>
    /\ \E dropped \in {<<>>} \cup {<<b>> : b \in Barcodes(pipeline.sampledata)} :
          pipeline' =
              [NewPipeline(pipeline.sampledata, pipeline.refdata,
                           WithoutDirs(pipeline.libdir, Range(dropped)))
                  EXCEPT !.earlier = <<[jobs |-> Signatures(pipeline.graph),
                                        exc |-> pipeline.exc,
                                        dropped |-> dropped]>>]
    /\ pc' = InitCalls[1]
    /\ todo' = {}
    /\ cur' = <<>>
    /\ todoC' = {}

NextTwoPasses ==
    \/ Next
    \/ Rebuild

SpecTwoPasses == Init /\ [][NextTwoPasses]_vars

----------------------------------------------------------------------------
(* check_sampledata over descriptions with panel and wgs barcodes.  The     *)
(* description handed to the constructor is kept beside the object, since   *)
(* check_sampledata overwrites the leaf lists (clinseq.py:182).             *)

BWN1 == <<"AL", "P", "SD1", "N", "01", "TD1", "WG1">>
BWT1 == <<"AL", "P", "SD1", "T", "02", "TD1", "WG1">>

WgsBarcodes == {BWN1, BWT1}

DescribedBarcodes(sampledata) ==
    Barcodes(sampledata) \cup Range(sampledata.wgs["N"]) \cup Range(sampledata.wgs["T"])
        \cup Range(sampledata.wgs["CFDNA"])

SampleDatasWithWgs ==
    {[sdid |-> sd.sdid,
      panel |-> sd.panel,
      wgs |-> [st \in {"N", "T", "CFDNA"} |->
                  CASE st = "N" -> SelectSeqIn(<<BWN1>>, chosen)
                    [] st = "T" -> SelectSeqIn(<<BWT1>>, chosen)
                    [] OTHER -> <<>>]] :
        sd \in SampleDatas, chosen \in SUBSET WgsBarcodes}

\* some barcodes lack their directory, others have one without read pairs
LibDirsWithWgs(sampledata) ==
    {[dirs |-> DescribedBarcodes(sampledata) \ nodir,
      fastqs |-> DescribedBarcodes(sampledata) \ (nodir \cup nofastq)] :
        <<nodir, nofastq>> \in
            {nn \in (SUBSET DescribedBarcodes(sampledata))
                        \X (SUBSET DescribedBarcodes(sampledata)) :
                /\ nn[1] \cap nn[2] = {}
                /\ Cardinality(nn[1] \cup nn[2]) <= MaxNoData + 1}}

InitFilter ==
    /\ \E sampledata \in SampleDatasWithWgs :
         \E ld \in LibDirsWithWgs(sampledata) :
            pipeline = NewPipeline(sampledata, CHOOSE rd \in RefDatas : TRUE, ld)
                          @@ [described |-> sampledata]
    /\ pc = InitCalls[1]
    /\ todo = {}
    /\ cur = <<>>
    /\ todoC = {}

NextFilter == CheckSampledata

SpecFilter == InitFilter /\ [][NextFilter]_vars

----------------------------------------------------------------------------
(* Vocabulary of the properties *)

\* the pass is past check_sampledata and every filtered barcode parses
Indexed == pc # "check_sampledata" /\ CanIndex(pipeline)

\* the capture index of the filtered sample description
Index == DOMAIN get_unique_capture_to_clinseq_barcodes(pipeline)

IndexNormals == {c \in Index : c.sample_type = "N"}

IndexCancers == {c \in Index : c.sample_type # "N"}

IndexTumors == {c \in Index : c.sample_type = "T"}

\* the pass has returned from configure_align_and_merge
AfterAlignAndMerge ==
    pc \in {"single_capture", "with_normal", "cancer_vs_normal",
            "configure_alascca_specific_analysis", "configure_all_panel_qcs",
            "configure_fastq_qcs", "configure_multi_qc", "done", "started"}

\* the pass has returned from configure_panel_analyses
AfterPanelAnalyses ==
    pc \in {"configure_alascca_specific_analysis", "configure_all_panel_qcs",
            "configure_fastq_qcs", "configure_multi_qc", "done", "started"}

GraphJobs == Range(pipeline.graph)

JobsOfKind(kind) == {job \in GraphJobs : job.kind = kind}

PairAttrs ==
    {"somatic_vcf", "msi_output", "hzconcordance_output", "vcf_addsample_output",
     "normal_contest_output", "cancer_contest_output", "cancer_contam_call"}

\* the pairs whose paired-analysis group is configured: every result of the group
\* is registered under the pair
PairGroups ==
    {key \in DOMAIN pipeline.normal_cancer_pair_to_results :
        \A attr \in PairAttrs : Count(pipeline.assigned, Field("pair", key, attr)) > 0}

ReportKinds ==
    {"AlasccaCNAPlot", "CompileMetadata", "CompileAlasccaGenomicJson", "WriteAlasccaReport"}

\* the value a ledger field holds
FieldValue(self, f) ==
    CASE f.ledger = "single" -> self.capture_to_results[f.key[1]][f.attr]
      [] f.ledger = "pair" -> self.normal_cancer_pair_to_results[f.key][f.attr]
      [] OTHER -> self.normal_capture_to_vcf[f.key[1]]

\* the kit of the capture has no targets-bed-slopped20 in the reference data
LacksTargetBed(unique_capture) ==
    ~HasTarget(pipeline, get_capture_name(unique_capture.capture_kit_id),
               "targets-bed-slopped20")

\* the metrics files a QC job produces
QcOutputs(job) ==
    IF job.kind = "PicardMarkDuplicates" THEN {job.outputs[2]}
    ELSE IF job.kind \in {"PicardCollectInsertSizeMetrics", "PicardCollectOxoGMetrics",
                          "PicardCollectHsMetrics", "SambambaDepth", "CoverageHistogram",
                          "CoverageCaveat", "FastQC"}
         THEN Range(job.outputs)
         ELSE {}

----------------------------------------------------------------------------
(* Properties *)

\* C1: an add() of a job whose name is already in the graph fails with the
\* duplicate-job-name error and leaves the graph as it was before the call; so no
\* two jobs of the graph ever share a name.
C1_DuplicateAddRejected ==
    /\ \A i, j \in 1..Len(pipeline.graph) :
          pipeline.graph[i].jobname = pipeline.graph[j].jobname => i = j
    /\ pipeline.failed_add # <<>> =>
          /\ pipeline.exc = "DuplicateJobNameError"
          /\ pipeline.failed_add[1].job.jobname
                \in JobNames(pipeline.failed_add[1].graph_before)
          /\ pipeline.graph = pipeline.failed_add[1].graph_before

\* an add() was rejected for a name already registered, with jobs in the graph
C1_Witness ==
    /\ pipeline.failed_add # <<>>
    /\ Len(pipeline.graph) >= 2

\* C2: for a filtered cohort with N >= 1 Normal and M >= 1 non-Normal captures and
\* reference data holding the target regions of every capture kit name, once
\* configure_panel_analyses has ended (returned or raised) exactly the N x M
\* paired-analysis groups of the cross product are configured.
C2_CrossProductConfigured ==
    (/\ Indexed
     /\ pc \in {"raised"} \cup
               {"configure_alascca_specific_analysis", "configure_all_panel_qcs",
                "configure_fastq_qcs", "configure_multi_qc", "done", "started"}
     /\ IndexNormals # {} /\ IndexCancers # {}
     /\ \A c \in Index : ~LacksTargetBed(c))
    => PairGroups = IndexNormals \X IndexCancers

\* C3: at the end of a complete build pass no ledger field has been read before
\* the step that writes it was configured.
C3_NoReadBeforeWrite ==
    pc = "done" => pipeline.read_unset = {}

C5_CohortShapeChecked ==
    Indexed =>
        IF Cardinality(IndexNormals) = 1 /\ Cardinality(IndexTumors) = 1
        THEN pipeline.exc # "ValueError"
        ELSE /\ \A job \in GraphJobs : job.kind \notin ReportKinds
             /\ pc \notin {"configure_all_panel_qcs", "configure_fastq_qcs",
                           "configure_multi_qc", "done", "started"}

\* C6: during a build pass every ledger field (each field of each per-capture and
\* per-pair record, each normal capture's germline VCF) is assigned at most once.
C6_AssignedAtMostOnce ==
    pipeline.set_calls = 0 =>
        \A f \in DOMAIN pipeline.assigned : pipeline.assigned[f] <= 1

\* a pass ran to its end and registered per-capture, per-pair and germline results
C6_Witness ==
    /\ pc = "done"
    /\ \E f, g, h \in DOMAIN pipeline.assigned :
          f.ledger = "single" /\ g.ledger = "pair" /\ h.ledger = "germline"

\* C7: a set call on a ledger field that is already populated fails with the
\* duplicate-assignment error and leaves the stored value unchanged.
C7_SecondSetRejected ==
    [][\A f \in DOMAIN pipeline.assigned :
          (pipeline.assigned[f] >= 1 /\ pipeline'.assigned[f] > pipeline.assigned[f])
          => /\ pipeline'.exc = "DuplicateAssignmentError"
             /\ FieldValue(pipeline', f) = FieldValue(pipeline, f)]_vars

\* C8: while a capture kit in use lacks targets-bed-slopped20, no job of a capture
\* of that kit (its alignments, its duplicate marking) is in the graph, and the
\* construction does not complete.
C8_NoJobForKitWithoutBed ==
    Indexed =>
        \A c \in Index : LacksTargetBed(c) =>
            /\ pc \notin {"done", "started"}
            /\ \A job \in GraphJobs :
                  /\ MarkDupsBam(c) \notin Range(job.outputs)
                  /\ \A b \in Range(get_unique_capture_to_clinseq_barcodes(pipeline)[c]) :
                        AlignedBam(b) \notin Range(job.outputs)

\* C9: no job is added after the aggregation job: a MultiQC job is the last job of
\* the graph.
C9_MultiQcAddedLast ==
    \A i \in 1..Len(pipeline.graph) :
        pipeline.graph[i].kind = "MultiQC" => i = Len(pipeline.graph)

\* the aggregation job is in the graph, after fastq QC and panel QC jobs
C9_Witness ==
    /\ JobsOfKind("MultiQC") # {}
    /\ JobsOfKind("FastQC") # {}
    /\ JobsOfKind("CoverageCaveat") # {}

\* C10: the input list of the aggregation job holds the output of every QC job
\* configured before it: the six per-capture outputs, the duplicate-marking
\* metrics and the fastq QC outputs.
C10_MultiQcInputsComplete ==
    \A i \in 1..Len(pipeline.graph) :
        pipeline.graph[i].kind = "MultiQC" =>
            \A j \in 1..(i - 1) :
                QcOutputs(pipeline.graph[j]) \subseteq Range(pipeline.graph[i].inputs)

\* C11: of two constructions over one sample description, the second without the
\* data of one barcode b, a job configured in both for the same captures, none of
\* them b's capture, over the same inputs has the same name and output paths in
\* both.
C11_DroppedBarcodeIsLocal ==
    (/\ pipeline.earlier # <<>>
     /\ pipeline.earlier[1].dropped # <<>>
     /\ CanParse(pipeline.earlier[1].dropped[1]))
    => LET capture_of_b == parse_capture_tuple(pipeline.earlier[1].dropped[1])
           before == {j \in pipeline.earlier[1].jobs : capture_of_b \notin j.about}
           after == {j \in Signatures(pipeline.graph) : capture_of_b \notin j.about}
       IN \A j1 \in before, j2 \in after :
             (j1.kind = j2.kind /\ j1.about = j2.about /\ j1.inputs = j2.inputs)
             => j1 = j2

\* C19: two constructions over the same filtered sample description and reference
\* data end with the same set of registered jobs (names, inputs, output paths),
\* whatever order the captures were iterated in.
C19_SameJobsWhateverOrder ==
    (/\ pc \in {"done", "started", "raised"}
     /\ pipeline.earlier # <<>>
     /\ pipeline.earlier[1].dropped = <<>>)
    => {Unordered(j) : j \in Signatures(pipeline.graph)}
          = {Unordered(j) : j \in pipeline.earlier[1].jobs}

C17_RaisedNeverStarted ==
    /\ pipeline.exc # NoExc => pc = "raised"
    /\ pc = "started" =>
          /\ pipeline.exc = NoExc
          /\ pipeline.checks = 1
          /\ pipeline.graph # <<>>
          /\ pipeline.graph[Len(pipeline.graph)].kind = "MultiQC"

\* a configuration step raised after jobs had been added
C17_Witness ==
    /\ pc = "raised"
    /\ pipeline.exc # NoExc
    /\ pipeline.graph # <<>>

\* C18: check_sampledata runs once in a build pass and has completed before the
\* first job is added: it never completes twice, it has completed wherever the
\* pass stands afterwards, and whenever the graph holds a job the sample data
\* hold only barcodes with data in the library directory.
C18_FilterOnceBeforeJobs ==
    /\ pipeline.checks <= 1
    /\ pc # "check_sampledata" => pipeline.checks = 1
    /\ pipeline.graph # <<>> =>
          /\ pipeline.checks = 1
          /\ \A b \in Range(get_all_clinseq_barcodes(pipeline)) :
                check_clinseq_barcode_for_data(pipeline, b)

\* jobs were added after a barcode without read pairs had been filtered out
C18_Witness ==
    /\ pipeline.graph # <<>>
    /\ pipeline.checks = 1
    /\ \E b \in pipeline.libdir.dirs \ pipeline.libdir.fastqs :
          b \notin Range(get_all_clinseq_barcodes(pipeline))

\* C20: with one Normal and one Tumor capture in the cohort,
\* get_normal_and_tumor_captures returns the Normal capture first and the
\* cohort's Tumor capture, a different capture, second; and once the report
\* steps have run, every key of the pair ledger is a (normal, cancer) pair that
\* the pairing fan-out configured.
C20_NormalThenTumor ==
    (/\ Indexed
     /\ CohortShapeOK(pipeline)
     /\ \A c \in get_unique_cancer_captures(pipeline) : c.sample_type = "T") =>
        LET captures == get_normal_and_tumor_captures(pipeline)
        IN /\ captures[1].sample_type = "N"
           /\ captures[2] \in get_unique_cancer_captures(pipeline)
           /\ captures[2] # captures[1]
           /\ pc \in {"configure_all_panel_qcs", "configure_fastq_qcs",
                      "configure_multi_qc", "done", "started"} =>
                 DOMAIN pipeline.normal_cancer_pair_to_results
                    \subseteq get_unique_normal_captures(pipeline)
                                 \X get_unique_cancer_captures(pipeline)

\* C16: every declared output of every job in the graph is a path
\* "{outdir}/{category}/..." whose category is one of bams, cnv, variants, qc,
\* contamination, report, msi, multiqc.
C16_OutputsUnderCategory ==
    LET categories == {"bams", "cnv", "variants", "qc", "contamination",
                       "report", "msi", "multiqc"}
        starts_with(s, p) == Len(s) >= Len(p) /\ SubSeq(s, 1, Len(p)) = p
    IN \A i \in 1..Len(pipeline.graph) :
          \A k \in 1..Len(pipeline.graph[i].outputs) :
             \E category \in categories :
                starts_with(pipeline.graph[i].outputs[k].prefix,
                            "{outdir}/" \o category \o "/")

\* C15: each declared input of each job in the graph is not None and is either
\* externally supplied data (a fastq file, a reference file) or a declared
\* output of a job added earlier.
C15_InputsAreProduced ==
    \A i \in 1..Len(pipeline.graph) :
       \A k \in 1..Len(pipeline.graph[i].inputs) :
          LET input == pipeline.graph[i].inputs[k]
          IN /\ input \notin {None, NoneTuple}
             /\ \/ input.prefix \in {"fastq:", "refdata:"}
                \/ \E j \in 1..(i - 1) : input \in Range(pipeline.graph[j].outputs)

\* C14: a barcode of five tokens prefix-sample_type-sample_id-libkit-capturekit
\* is parsed to the capture (2nd token, 3rd token, first two letters of the 4th
\* token, first two letters of the 5th token): once the capture index has been
\* built over a description holding such a barcode no IndexError was raised,
\* and after align+merge its capture is a key of the per-capture ledger.
C14_FiveTokenBarcodeParses ==
    \A b \in Range(get_all_clinseq_barcodes(pipeline)) :
       (Len(b) = 5 /\ pc \notin {"check_sampledata", "configure_panel_analyses"}) =>
          /\ pipeline.exc # "IndexError"
          /\ AfterAlignAndMerge =>
                UniqueCapture(b[2], b[3], First2(b[4]), First2(b[5]))
                   \in get_all_unique_captures(pipeline)

\* C13: for a description of one Normal and one Tumor barcode on the same kits
\* and a reference bundle that holds every target file under the name of the
\* kit, the build pass ends without an error with exactly one germline-calling
\* job, one somatic-calling job, one MSI job, one concordance job, two ContEst
\* jobs, one contamination-verdict job, one aggregation job, and the QC jobs of
\* both captures.
C13_OneNormalOneTumorJobs ==
    LET panel == pipeline.sampledata.panel
        complete(kit) ==
            \A field \in {"targets-bed-slopped20", "targets-interval_list-slopped20",
                          "cnvkit-ref", "msisites"} :
               Target(pipeline, get_capture_name(kit), field) # None
        count(kind) == Cardinality({i \in 1..Len(pipeline.graph) :
                                      pipeline.graph[i].kind = kind})
    IN (/\ pc \in {"done", "started", "raised"}
        /\ Len(panel["N"]) = 1 /\ Len(panel["T"]) = 1 /\ Len(panel["CFDNA"]) = 0
        /\ CanParse(panel["N"][1]) /\ CanParse(panel["T"][1])
        /\ parse_prep_kit_id(panel["N"][1]) = parse_prep_kit_id(panel["T"][1])
        /\ parse_capture_kit_id(panel["N"][1]) = parse_capture_kit_id(panel["T"][1])
        /\ complete(parse_capture_kit_id(panel["N"][1]))
        /\ pipeline.refdata.vep_dir # None)
       => /\ pc # "raised"
          /\ count("Freebayes") = 1
          /\ count("somatic") = 1
          /\ count("MsiSensor") = 1
          /\ count("HeterzygoteConcordance") = 1
          /\ count("ContEst") = 2
          /\ count("ContEstToContamCaveat") = 1
          /\ count("MultiQC") = 1
          /\ \A c \in {parse_capture_tuple(panel["N"][1]), parse_capture_tuple(panel["T"][1])} :
                \A kind \in {"PicardCollectInsertSizeMetrics", "PicardCollectOxoGMetrics",
                             "PicardCollectHsMetrics", "SambambaDepth"} :
                   Cardinality({i \in 1..Len(pipeline.graph) :
                                  /\ pipeline.graph[i].kind = kind
                                  /\ pipeline.graph[i].about = {c}}) = 1

\* C21: in a cohort with at least one Normal and at least one non-Normal capture
\* the orchestrators never hand add() a job whose name another job of the graph
\* already carries: no build pass ends in a duplicate-name rejection.
C21_NoDuplicateJobName ==
    (Indexed /\ IndexNormals # {} /\ IndexCancers # {}) =>
        /\ pipeline.failed_add = <<>>
        /\ pipeline.exc # "DuplicateJobNameError"

\* C22: no two distinct jobs configured in a build pass (the jobs of the graph
\* and a job that add() was handed and rejected) declare the same output path.
C22_OutputPathsDistinct ==
    LET declared(job) == [kind |-> job.kind, inputs |-> job.inputs, outputs |-> job.outputs]
        configured == {declared(job) : job \in GraphJobs}
                         \cup {declared(pipeline.failed_add[i].job) :
                                  i \in 1..Len(pipeline.failed_add)}
    IN \A j1, j2 \in configured :
          j1 # j2 => Range(j1.outputs) \cap Range(j2.outputs) = {}

\* C23: the somatic-calling job of a pair (normal, cancer) has the deduplicated
\* alignment of the cancer capture as its tumor input and that of the normal
\* capture as its normal input, and its call set is the somatic_vcf of the pair
\* ledger under the key (normal, cancer).
C23_SomaticTumorVsNormal ==
    \A job \in JobsOfKind("somatic") :
       \A normal_capture, cancer_capture \in job.about :
          (normal_capture.sample_type = "N" /\ cancer_capture.sample_type # "N") =>
             /\ job.inputs[1] = get_capture_bam(pipeline, cancer_capture)
             /\ job.inputs[2] = get_capture_bam(pipeline, normal_capture)
             /\ <<normal_capture, cancer_capture>>
                   \in DOMAIN pipeline.normal_cancer_pair_to_results
             /\ pipeline.normal_cancer_pair_to_results[<<normal_capture, cancer_capture>>]
                   .somatic_vcf = job.outputs[1]

\* C24: every key of the pair ledger, and the key of every assignment to a pair
\* result, is an ordered pair of a Normal capture and a non-Normal capture, and
\* the ledger never holds a key together with its swapped pair.
C24_PairKeysNormalThenCancer ==
    LET ordered(key) == key[1].sample_type = "N" /\ key[2].sample_type # "N"
    IN /\ \A key \in DOMAIN pipeline.normal_cancer_pair_to_results :
             /\ ordered(key)
             /\ key[1] # key[2] =>
                   <<key[2], key[1]>> \notin DOMAIN pipeline.normal_cancer_pair_to_results
       /\ \A f \in DOMAIN pipeline.assigned : f.ledger = "pair" => ordered(f.key)

\* C25: every lookup into refdata['targets'] made for a capture is keyed by the
\* kit name get_capture_name resolves from the capture's kit code: every target
\* file among the inputs of a job is the file stored under the kit name of one of
\* the job's captures, and with a bundle that holds every target file under the
\* kit names of the cohort no lookup fails with KeyError.
C25_TargetsKeyedByKitName ==
    LET target_fields == {"targets-bed-slopped20", "targets-interval_list-slopped20",
                          "cnvkit-ref", "msisites"}
        kit_names(captures) == {get_capture_name(c.capture_kit_id) : c \in captures}
    IN /\ \A job \in GraphJobs :
             \A k \in 1..Len(job.inputs) :
                (/\ job.inputs[k].prefix = "refdata:"
                 /\ Len(job.inputs[k].toks) = 2
                 /\ job.inputs[k].toks[2] \in target_fields)
                => job.inputs[k].toks[1] \in kit_names(job.about)
       /\ (/\ Indexed
           /\ \A name \in kit_names(Index) :
                 \A field \in target_fields : HasTarget(pipeline, name, field))
          => pipeline.exc # "KeyError"

C31_SixQcJobsPerCapture ==
    LET kinds == <<"PicardCollectInsertSizeMetrics", "PicardCollectOxoGMetrics",
                   "PicardCollectHsMetrics", "SambambaDepth", "CoverageHistogram",
                   "CoverageCaveat">>
        qc(c) == SelectSeqIn(pipeline.graph,
                    {job \in GraphJobs : job.about = {c} /\ job.kind \in Range(kinds)})
        returned(c) == Count(pipeline.assigned, Field("single", <<c>>, "cov_qc_call")) > 0
    IN Indexed =>
       /\ \A c \in Index :
             returned(c) =>
                LET jobs == qc(c)
                IN /\ Len(jobs) = 6
                   /\ \A i \in 1..6 : jobs[i].kind = kinds[i] /\ Len(jobs[i].outputs) = 1
                   /\ \A i \in 1..5 : MarkDupsBam(c) \in Range(jobs[i].inputs)
                   /\ get_capture_bam(pipeline, c) = MarkDupsBam(c)
                   /\ jobs[6].inputs = jobs[5].outputs
                   /\ pipeline.capture_to_results[c].cov_qc_call = jobs[6].outputs[1]
                   /\ \E k \in 0..(Len(pipeline.qc_files) - 6) :
                         \A i \in 1..6 : pipeline.qc_files[k + i] = jobs[i].outputs[1]
       /\ pc \in {"configure_fastq_qcs", "configure_multi_qc", "done", "started"} =>
             /\ Index = get_all_unique_captures(pipeline)
             /\ \A c \in Index : returned(c)

\* the panel QC of a Normal and of a non-Normal capture has been configured
C31_Witness ==
    /\ Indexed
    /\ pc = "configure_fastq_qcs"
    /\ \E c \in IndexNormals :
          Count(pipeline.assigned, Field("single", <<c>>, "cov_qc_call")) > 0
    /\ \E c \in IndexCancers :
          Count(pipeline.assigned, Field("single", <<c>>, "cov_qc_call")) > 0
    /\ Cardinality(JobsOfKind("CoverageCaveat")) = 2

C33_UnassignedFieldsAreNone ==
    /\ \A c \in DOMAIN pipeline.capture_to_results :
          \A attr \in DOMAIN SinglePanelResults :
             Count(pipeline.assigned, Field("single", <<c>>, attr)) = 0 =>
                pipeline.capture_to_results[c][attr] = None
    /\ \A key \in DOMAIN pipeline.normal_cancer_pair_to_results :
          \A attr \in DOMAIN CancerVsNormalPanelResults :
             Count(pipeline.assigned, Field("pair", key, attr)) = 0 =>
                pipeline.normal_cancer_pair_to_results[key][attr] = None

\* C34: once check_sampledata has run, it has raised nothing, and each leaf list
\* of the sample description (panel and wgs; N, T and CFDNA) is a subsequence of
\* the list the description was given with: its entries are, in the original
\* order, exactly the entries whose barcode has a data directory and read pairs.
C34_LeavesFilteredInOrder ==
    pipeline.checks = 1 =>
       /\ pc # "raised"
       /\ pipeline.exc = NoExc
       /\ \A datatype \in {"panel", "wgs"}, st \in {"N", "T", "CFDNA"} :
             LET given == pipeline.described[datatype][st]
                 kept == pipeline.sampledata[datatype][st]
                 has_data == {j \in 1..Len(given) :
                                 /\ given[j] \in pipeline.libdir.dirs
                                 /\ given[j] \in pipeline.libdir.fastqs}
             IN \E at \in [1..Len(kept) -> 1..Len(given)] :
                   /\ \A i \in 1..Len(kept) : kept[i] = given[at[i]]
                   /\ \A i, j \in 1..Len(kept) : i < j => at[i] < at[j]
                   /\ {at[i] : i \in 1..Len(kept)} = has_data

\* check_sampledata has dropped the middle one of three panel barcodes, which has
\* no data directory, and has emptied a wgs list whose only barcode has a
\* directory without read pairs
C34_Witness ==
    /\ pipeline.checks = 1
    /\ pc = "configure_panel_analyses"
    /\ \E st \in {"N", "T", "CFDNA"} :
          LET given == pipeline.described.panel[st]
          IN /\ Len(given) = 3
             /\ given[2] \notin pipeline.libdir.dirs
             /\ pipeline.sampledata.panel[st] = <<given[1], given[3]>>
    /\ \E st \in {"N", "T", "CFDNA"} :
          LET given == pipeline.described.wgs[st]
          IN /\ Len(given) = 1
             /\ given[1] \in pipeline.libdir.dirs \ pipeline.libdir.fastqs
             /\ pipeline.sampledata.wgs[st] = <<>>

====
